---- MODULE Spec2Model ----
(***************************************************************************)
(* Model of app_web.py: the schema synchronizer init_db, the page run that *)
(* loads the sites and the equipment table, the editable table, the save   *)
(* action "Guardar Cambios" and the "Crear Obra" action, over one MySQL    *)
(* store shared by several browser sessions and by the inventory agent     *)
(* that registers equipment.                                               *)
(***************************************************************************)
EXTENDS Integers, FiniteSets, Sequences, TLC

\* Each operation runs on a connection of its own and commits at its end; the save
\* and Crear Obra end, on success, with st.rerun(), the next script run.
VARIABLES
    tablas,        \* names of the tables that exist in the store
    columnas,      \* columns of table equipos
    sitios,        \* rows of table sitios: [id, nombre]
    nextSitioId,   \* AUTO_INCREMENT counter of sitios
    equipos,       \* rows of table equipos
    nextEquipoId,  \* AUTO_INCREMENT counter of equipos
    ses,           \* per browser session: the state of its last script run
    nEdits,        \* number of cell edits made so far (bounded by MaxEdits)
    last           \* history: the last operation, with the state it started from

vars == <<tablas, columnas, sitios, nextSitioId, equipos, nextEquipoId, ses, nEdits, last>>

\* ------------------------------------------------------------- bounds
MaxEquipoId == 3       \* the agent registers equipos up to this id
MaxEdits == 1          \* cell edits over a run

Sessions == {"s1", "s2"}
CodigosOrden == <<"PC-001", "PC-002", "PC-003">>
Codigos == {CodigosOrden[i] : i \in DOMAIN CodigosOrden}
ObrasNuevas == {"OBRA1"}

\* ------------------------------------------------------------- constants of the program
NULL == 0              \* SQL NULL / None / NaN in an id column
NOTEXT == ""           \* SQL NULL / None in a text column
SIN_ASIGNAR == "Sin Asignar"
TODAS == "TODAS"

\* two of the five entries of LISTA_EMPRESAS
LISTA_EMPRESAS == {"Sin Asignar", "TRALSA"}

Filtros == {TODAS} \cup LISTA_EMPRESAS

columnas_base == {"id", "codigo_inventario", "serie", "tipo", "marca_modelo",
                  "usuario", "sitio_id"}

nuevas_columnas == <<"ram", "procesador", "disco", "mainboard", "video", "antivirus",
                     "windows_ver", "ultima_conexion", "codigo_manual", "detalles",
                     "empresa">>

\* ------------------------------------------------------------- init_db
Nombres(S) == {s.nombre : s \in S}
Ids(E) == {e.id : e \in E}

\* the row an INSERT INTO sitios (nombre) adds, with the next AUTO_INCREMENT id
ConSitio(db, nombre) ==
    [db EXCEPT !.sitios = @ \cup {[id |-> db.nextSitioId, nombre |-> nombre]},
               !.nextSitioId = @ + 1]

\* mutant: a plain INSERT into a table without the UNIQUE index
InsertSiempre(db, nombre) == ConSitio(db, nombre)

\* INSERT IGNORE INTO sitios (nombre): no row when the name is already there
InsertIgnoreSitio(db, nombre) ==
    IF nombre \in Nombres(db.sitios) THEN db ELSE ConSitio(db, nombre)

\* ALTER TABLE equipos ADD COLUMN for nuevas_columnas[i..]; "column exists" is ignored
RECURSIVE AddColumns(_, _)
AddColumns(cols, i) ==
    IF i > Len(nuevas_columnas)
    THEN cols
    ELSE AddColumns(cols \cup {nuevas_columnas[i]}, i + 1)

\* mutant: the list of default states lacks its last entry
estadosSinOficina == <<"LIBRE", "DEFECTUOSA">>

estados == <<"LIBRE", "DEFECTUOSA", "OFICINA CENTRAL">>

RECURSIVE SeedEstados(_, _)
SeedEstados(db, i) ==
    IF i > Len(estados)
    THEN db
    ELSE SeedEstados(InsertIgnoreSitio(db, estados[i]), i + 1)

\* the store as one record, and init_db as a function of it
InitDb(db) ==
    LET created == [db EXCEPT !.tablas = @ \cup {"sitios", "equipos"},
                              !.columnas = IF "equipos" \in db.tablas
                                           THEN @ ELSE columnas_base]
        migrated == [created EXCEPT !.columnas = AddColumns(@, 1)]
    IN SeedEstados(migrated, 1)

RECURSIVE InitDbN(_, _)
InitDbN(db, n) == IF n = 0 THEN db ELSE InitDbN(InitDb(db), n - 1)

DB == [tablas |-> tablas, columnas |-> columnas, sitios |-> sitios,
       nextSitioId |-> nextSitioId, equipos |-> equipos]

\* ------------------------------------------------------------- page run: load
\* mapa_ids.get(sitio_id), then fillna("Sin Asignar")
ObraDe(df_sitios, sitio_id) ==
    IF \E s \in df_sitios : s.id = sitio_id
    THEN (CHOOSE s \in df_sitios : s.id = sitio_id).nombre
    ELSE SIN_ASIGNAR

\* mapa_obras.get(nombre_obra): the id, or None
MapaObras(df_sitios, nombre) ==
    IF \E s \in df_sitios : s.nombre = nombre
    THEN (CHOOSE s \in df_sitios : s.nombre = nombre).id
    ELSE NULL

\* one row of df_equipos: the selected columns plus the mapped Obra
Fila(e, df_sitios) ==
    [id |-> e.id, codigo_inventario |-> e.codigo_inventario, serie |-> e.serie,
     sitio_id |-> e.sitio_id, tipo |-> e.tipo, codigo_manual |-> e.codigo_manual,
     detalles |-> e.detalles, empresa |-> e.empresa,
     Obra |-> ObraDe(df_sitios, e.sitio_id)]

\* base_query: all rows, or WHERE empresa = filtro_empresa
BaseQuery(E, filtro) ==
    IF filtro # TODAS THEN {e \in E : e.empresa = filtro} ELSE E

DfEquipos(E, S, filtro) == {Fila(e, S) : e \in BaseQuery(E, filtro)}

\* a row added on screen (num_rows="dynamic"): the hidden id and the disabled
\* codigo_inventario stay empty
FilaNueva ==
    [id |-> NULL, codigo_inventario |-> NOTEXT, serie |-> NOTEXT, sitio_id |-> NULL,
     tipo |-> NOTEXT, codigo_manual |-> NOTEXT, detalles |-> NOTEXT,
     empresa |-> SIN_ASIGNAR, Obra |-> "LIBRE"]

SesionVacia ==
    [loaded |-> FALSE, filtro |-> TODAS, df_sitios |-> {}, df_equipos |-> {},
     cambios |-> {}]

\* the script run of one session: the tables as loaded and the untouched editor
Cargada(E, S, filtro) ==
    [loaded |-> TRUE, filtro |-> filtro, df_sitios |-> S,
     df_equipos |-> DfEquipos(E, S, filtro), cambios |-> DfEquipos(E, S, filtro)]

\* the history of the last operation: which it was, how it ended (for a script run,
\* ok tells whether the tables were there already), and the facts of the state it
\* started from that are gone once it has acted
NoLast ==
    [op |-> "none", ses |-> "s1", ok |-> TRUE, msg |-> "none", nombre |-> NOTEXT,
     todas |-> FALSE, fresco |-> FALSE, sinEdicion |-> FALSE, nueva |-> FALSE,
     quitadas |-> 0, borradas |-> 0, ajenas |-> FALSE, borroAjena |-> FALSE,
     fantasma |-> FALSE, reasigno |-> FALSE, parcial |-> FALSE, persistio |-> FALSE]

Init ==
    /\ tablas = {}
    /\ columnas = {}
    /\ sitios = {}
    /\ nextSitioId = 1
    /\ equipos = {}
    /\ nextEquipoId = 1
    /\ ses = [s \in Sessions |-> SesionVacia]
    /\ nEdits = 0
    /\ last = NoLast

SetDb(db) ==
    /\ tablas' = db.tablas
    /\ columnas' = db.columnas
    /\ sitios' = db.sitios
    /\ nextSitioId' = db.nextSitioId
    /\ equipos' = db.equipos

\* a script run: init_db, then the load of tab1.  The table a save works on is the
\* one its script run has loaded; statements of other connections can fall between
\* that load and the statements of the save, and the edits of the user apply to the
\* loaded rows whenever they were made.
PageRun(s, filtro) ==
    LET db == InitDb(DB) IN
    /\ SetDb(db)
    /\ ses' = [ses EXCEPT ![s] = Cargada(db.equipos, db.sitios, filtro)]
    /\ last' = [NoLast EXCEPT !.op = "run", !.ses = s, !.ok = "equipos" \in tablas]
    /\ UNCHANGED <<nextEquipoId, nEdits>>

\* ------------------------------------------------------------- the editable table
\* the editable columns the model edits (tipo and codigo_manual are written by the
\* save exactly as detalles is)
Columnas == {"Obra", "detalles", "empresa"}

\* the sites the model's users pick
ObrasElegidas == {"DEFECTUOSA"} \cup ObrasNuevas

\* the values a cell of an editable column can be given
Valores(col, df_sitios) ==
    CASE col = "Obra" -> Nombres(df_sitios) \cap ObrasElegidas
      [] col = "tipo" -> {"Laptop"}
      [] col = "codigo_manual" -> {"Ana"}
      [] col = "detalles" -> {"nota"}
      [] col = "empresa" -> LISTA_EMPRESAS

Editada(r, col, val) ==
    CASE col = "Obra" -> [r EXCEPT !.Obra = val]
      [] col = "tipo" -> [r EXCEPT !.tipo = val]
      [] col = "codigo_manual" -> [r EXCEPT !.codigo_manual = val]
      [] col = "detalles" -> [r EXCEPT !.detalles = val]
      [] col = "empresa" -> [r EXCEPT !.empresa = val]

\* the user deletes a row of the editor
RemoveRow(s, r) ==
    /\ ses[s].loaded
    /\ r \in ses[s].cambios
    /\ ses' = [ses EXCEPT ![s].cambios = @ \ {r}]
    /\ last' = NoLast
    /\ UNCHANGED <<tablas, columnas, sitios, nextSitioId, equipos, nextEquipoId, nEdits>>

\* the user adds a row to the editor
AddRow(s) ==
    /\ ses[s].loaded
    /\ FilaNueva \notin ses[s].cambios
    /\ ses' = [ses EXCEPT ![s].cambios = @ \cup {FilaNueva}]
    /\ last' = NoLast
    /\ UNCHANGED <<tablas, columnas, sitios, nextSitioId, equipos, nextEquipoId, nEdits>>

\* the user changes one cell of a loaded row
EditCell(s, r, col, val) ==
    /\ ses[s].loaded
    /\ nEdits < MaxEdits
    /\ r \in ses[s].cambios
    /\ r.id # NULL
    /\ val \in Valores(col, ses[s].df_sitios)
    /\ Editada(r, col, val) # r
    /\ ses' = [ses EXCEPT ![s].cambios = (@ \ {r}) \cup {Editada(r, col, val)}]
    /\ nEdits' = nEdits + 1
    /\ last' = NoLast
    /\ UNCHANGED <<tablas, columnas, sitios, nextSitioId, equipos, nextEquipoId>>

\* ------------------------------------------------------------- Guardar Cambios
\* mutant: the deletion runs whatever the filter is
IdsDelSinFiltro(filtro, ids_db, ids_screen) == ids_db \ ids_screen

\* mutant: nothing is ever deleted
IdsDelNada(filtro, ids_db, ids_screen) == {}

\* 1. DETECTAR BORRADOS: ids_db - ids_screen, in the unfiltered view only
IdsDel(filtro, ids_db, ids_screen) ==
    IF filtro = TODAS THEN ids_db \ ids_screen ELSE {}

\* mutant: the site is not written
SetRowSinSitio(e, r, df_sitios) ==
    [e EXCEPT !.tipo = r.tipo, !.codigo_manual = r.codigo_manual,
              !.detalles = r.detalles, !.empresa = r.empresa]

\* mutant: the serie shown on screen is written back too, trimmed to the column
SetRowConSerie(e, r, df_sitios) ==
    [e EXCEPT !.sitio_id = MapaObras(df_sitios, r.Obra), !.tipo = r.tipo,
              !.codigo_manual = r.codigo_manual, !.detalles = r.detalles,
              !.empresa = r.empresa, !.serie = NOTEXT]

\* the SET clause of the UPDATE, with vals of the row
SetRow(e, r, df_sitios) ==
    [e EXCEPT !.sitio_id = MapaObras(df_sitios, r.Obra), !.tipo = r.tipo,
              !.codigo_manual = r.codigo_manual, !.detalles = r.detalles,
              !.empresa = r.empresa]

\* mutant: an upsert (INSERT ... ON DUPLICATE KEY UPDATE) keeping the row's id
UpdateOInsert(E, r, df_sitios) ==
    IF \E e \in E : e.codigo_inventario = r.codigo_inventario
    THEN {IF e.codigo_inventario = r.codigo_inventario THEN SetRow(e, r, df_sitios) ELSE e
          : e \in E}
    ELSE E \cup {[id |-> r.id, codigo_inventario |-> r.codigo_inventario,
                  serie |-> r.serie, sitio_id |-> MapaObras(df_sitios, r.Obra),
                  tipo |-> r.tipo, codigo_manual |-> r.codigo_manual,
                  detalles |-> r.detalles, empresa |-> r.empresa]}

\* UPDATE equipos SET ... WHERE codigo_inventario = %s
Update(E, r, df_sitios) ==
    {IF e.codigo_inventario = r.codigo_inventario THEN SetRow(e, r, df_sitios) ELSE e
     : e \in E}

\* 2. ACTUALIZACIONES: the loop over the rows of the editor that have a code
RECURSIVE Actualizaciones(_, _, _)
Actualizaciones(E, filas, df_sitios) ==
    IF filas = {}
    THEN E
    ELSE LET r == CHOOSE x \in filas : TRUE
         IN Actualizaciones(Update(E, r, df_sitios), filas \ {r}, df_sitios)

ConCodigo(cambios) == {r \in cambios : r.codigo_inventario # NOTEXT}

\* the first k rows of cambios.iterrows() that have a code: the load is ordered by
\* ultima_conexion DESC, the latest registered first
Primeras(cambios, k) ==
    {r \in ConCodigo(cambios) :
        Cardinality({x \in ConCodigo(cambios) : x.id > r.id}) < k}

\* mutant: only the rows the user removed from the loaded table are deleted
BorradosSoloQuitadas(E, S) ==
    {e \in E : e.id \notin (Ids(S.df_equipos) \ Ids(S.cambios)) \/ S.filtro # TODAS}

\* the equipos left by step 1
Borrados(E, S) ==
    {e \in E : e.id \notin IdsDel(S.filtro, Ids(E), Ids(S.cambios) \ {NULL})}

\* the facts of a save pressed in session s that the history keeps; F is the store's
\* equipos once the save has ended
HechosSave(s, F) ==
    LET S == ses[s] IN
    [NoLast EXCEPT
        !.op = "save", !.ses = s, !.todas = (S.filtro = TODAS),
        !.fresco = (S.df_equipos = DfEquipos(equipos, sitios, S.filtro)),
        !.sinEdicion = (S.cambios \subseteq S.df_equipos),
        !.nueva = (FilaNueva \in S.cambios),
        !.quitadas = Cardinality(Ids(S.df_equipos) \ Ids(S.cambios)),
        !.borradas = Cardinality(Ids(equipos) \ Ids(F)),
        !.ajenas = (Ids(equipos) \ Ids(S.df_equipos) # {}),
        !.borroAjena = ((Ids(equipos) \ Ids(S.df_equipos)) \ Ids(F) # {}),
        !.fantasma = ((Ids(S.cambios) \ {NULL}) \ Ids(equipos) # {}),
        !.reasigno = (\E x \in F : \E y \in equipos :
                         y.id = x.id /\ y.sitio_id # x.sitio_id)]

\* mutant: every statement is committed as it runs (autocommit)
SaveOnErrorAutocommit(antes, parcial) == parcial

\* the except branch: no commit was reached, conn.close() drops the transaction
SaveOnError(antes, parcial) == antes

\* the statements all ran, conn.commit(), st.rerun(): init_db and the load again
SaveOk(s) ==
    LET S == ses[s]
        final == Actualizaciones(Borrados(equipos, S), ConCodigo(S.cambios), S.df_sitios)
        db == InitDb([DB EXCEPT !.equipos = final])
    IN /\ S.loaded
       /\ SetDb(db)
       /\ ses' = [ses EXCEPT ![s] = Cargada(db.equipos, db.sitios, S.filtro)]
       /\ last' = [HechosSave(s, final) EXCEPT !.ok = TRUE, !.msg = "guardado"]
       /\ UNCHANGED <<nextEquipoId, nEdits>>

\* a statement raises: at the SELECT or the DELETE (enBorrado), or after the first
\* k rows were updated (at the commit when k is all of them)
SaveError(s, enBorrado, k) ==
    LET S == ses[s]
        parcial == IF enBorrado
                   THEN equipos
                   ELSE Actualizaciones(Borrados(equipos, S), Primeras(S.cambios, k),
                                        S.df_sitios)
    IN /\ S.loaded
       /\ k \in 0..Cardinality(ConCodigo(S.cambios))
       /\ enBorrado => k = 0
       /\ equipos' = SaveOnError(equipos, parcial)
       /\ last' = [HechosSave(s, SaveOnError(equipos, parcial)) EXCEPT
                      !.ok = FALSE, !.msg = "Error", !.parcial = (parcial # equipos),
                      !.persistio = (SaveOnError(equipos, parcial) # equipos)]
       /\ UNCHANGED <<tablas, columnas, sitios, nextSitioId, nextEquipoId, ses, nEdits>>

\* ------------------------------------------------------------- Crear Obra
\* mutant: the sitios table has no UNIQUE index on nombre
InsertSitioSinIndice(db, nombre) ==
    [ok |-> TRUE, db |-> ConSitio(db, nombre)]

\* INSERT INTO sitios (nombre): raises on a duplicate name
InsertSitio(db, nombre) ==
    IF nombre \in Nombres(db.sitios)
    THEN [ok |-> FALSE, db |-> db]
    ELSE [ok |-> TRUE, db |-> ConSitio(db, nombre)]

NombresObra == {NOTEXT, "LIBRE"} \cup ObrasNuevas

\* the button with the text input; after a successful insert `rerun` tells whether
\* st.rerun() restarts the script or its control exception ends in the bare except
CrearObra(s, nueva_obra, rerun) ==
    LET res == InsertSitio(DB, nueva_obra)
        db == IF rerun THEN InitDb(res.db) ELSE res.db
        H == [NoLast EXCEPT !.op = "crear", !.ses = s, !.nombre = nueva_obra]
    IN /\ ses[s].loaded
       /\ IF nueva_obra = NOTEXT
          THEN /\ rerun
               /\ last' = [H EXCEPT !.ok = FALSE]
               /\ UNCHANGED <<tablas, columnas, sitios, nextSitioId, equipos, ses>>
          ELSE IF ~res.ok
          THEN /\ rerun
               /\ last' = [H EXCEPT !.ok = FALSE, !.msg = "Ya existe."]
               /\ UNCHANGED <<tablas, columnas, sitios, nextSitioId, equipos, ses>>
          ELSE /\ SetDb(db)
               /\ ses' = IF rerun
                         THEN [ses EXCEPT ![s] = Cargada(db.equipos, db.sitios, ses[s].filtro)]
                         ELSE ses
               /\ last' = [H EXCEPT !.ok = TRUE,
                                    !.msg = IF rerun THEN "creada" ELSE "Ya existe."]
       /\ UNCHANGED <<nextEquipoId, nEdits>>

\* ------------------------------------------------------------- registration
\* the row a registration inserts: the first code comes from the registration form,
\* with site LIBRE; the others come from the agent, which sets no site and leaves
\* empresa to the column default
EquipoNuevo(id, cod, S) ==
    [id |-> id, codigo_inventario |-> cod, serie |-> "SN",
     sitio_id |-> IF cod = CodigosOrden[1] THEN MapaObras(S, "LIBRE") ELSE NULL,
     tipo |-> NOTEXT, codigo_manual |-> NOTEXT, detalles |-> NOTEXT,
     empresa |-> SIN_ASIGNAR]

Orden(cod) == CHOOSE i \in DOMAIN CodigosOrden : CodigosOrden[i] = cod

\* a code the table does not hold is registered, the first such code of
\* CodigosOrden, while ids are left
AgentInsert(cod) ==
    /\ "equipos" \in tablas
    /\ nextEquipoId <= MaxEquipoId
    /\ cod \notin {e.codigo_inventario : e \in equipos}
    /\ \A c \in Codigos :
          c \notin {e.codigo_inventario : e \in equipos} => Orden(cod) <= Orden(c)
    /\ equipos' = equipos \cup {EquipoNuevo(nextEquipoId, cod, sitios)}
    /\ nextEquipoId' = nextEquipoId + 1
    /\ last' = NoLast
    /\ UNCHANGED <<tablas, columnas, sitios, nextSitioId, ses, nEdits>>

\* one session and the agent: the editor and the save in every view
Next ==
    \/ \E f \in Filtros : PageRun("s1", f)
    \/ \E r \in ses["s1"].cambios : RemoveRow("s1", r)
    \/ AddRow("s1")
    \/ \E r \in ses["s1"].cambios : \E col \in Columnas :
          \E val \in Valores(col, ses["s1"].df_sitios) : EditCell("s1", r, col, val)
    \/ SaveOk("s1")
    \/ \E b \in BOOLEAN :
          \E k \in 0..Cardinality(ses["s1"].cambios) : SaveError("s1", b, k)
    \/ \E cod \in Codigos : AgentInsert(cod)

Spec == Init /\ [][Next]_vars

\* one session and the agent: the sites, their assignment and the save
NextObras ==
    \/ PageRun("s1", TODAS)
    \/ \E n \in NombresObra, rerun \in BOOLEAN : CrearObra("s1", n, rerun)
    \/ \E r \in ses["s1"].cambios : \E col \in Columnas :
          \E val \in Valores(col, ses["s1"].df_sitios) : EditCell("s1", r, col, val)
    \/ \E r \in ses["s1"].cambios : RemoveRow("s1", r)
    \/ SaveOk("s1")
    \/ \E cod \in Codigos : AgentInsert(cod)

SpecObras == Init /\ [][NextObras]_vars

\* two sessions on the unfiltered view, removing rows and saving, and the agent
NextDos ==
    \/ \E s \in Sessions : PageRun(s, TODAS)
    \/ \E s \in Sessions : \E r \in ses[s].cambios : RemoveRow(s, r)
    \/ \E s \in Sessions : AddRow(s)
    \/ \E s \in Sessions : SaveOk(s)
    \/ \E cod \in Codigos : AgentInsert(cod)

SpecDos == Init /\ [][NextDos]_vars

SpecFair == Spec /\ WF_vars(Next)

\* ------------------------------------------------------------- properties
MaxRuns == 3           \* runs of init_db in a row

\* the step is a save pressed in session s / one that ended in the success branch
SaveDe(s) == last'.op = "save" /\ last'.ses = s
Guardado(s) == SaveDe(s) /\ last'.ok

\* the table on screen was loaded from the store as it is now
Fresco(s) == ses[s].df_equipos = DfEquipos(equipos, sitios, ses[s].filtro)
SinNuevas(s) == \A r \in ses[s].cambios : r.id # NULL
IdsPantalla(s) == Ids(ses[s].cambios) \ {NULL}
CodigosDe(E) == {e.codigo_inventario : e \in E}

\* C1 as stated: after a successful save of a table loaded from the store as it is,
\* with no added rows, the persisted keys are the keys on screen, whatever the view.
C1_KeysEqualEveryView ==
    [][\A s \in Sessions :
        (Guardado(s) /\ Fresco(s) /\ SinNuevas(s))
            => Ids(equipos') = IdsPantalla(s)]_vars

\* C1 amended: the same, for a save pressed from the unfiltered view TODAS.
C1_KeysEqualUnfiltered ==
    [][\A s \in Sessions :
        (Guardado(s) /\ Fresco(s) /\ SinNuevas(s) /\ ses[s].filtro = TODAS)
            => /\ Ids(equipos') = IdsPantalla(s)
               /\ CodigosDe(equipos') = CodigosDe(ses[s].cambios)]_vars

C1_Witness ==
    /\ last.op = "save" /\ last.ok /\ last.todas /\ last.fresco /\ ~last.nueva
    /\ last.quitadas > 0 /\ last.borradas > 0
    /\ equipos # {}

C3_SiteReassigned ==
    [][\A s \in Sessions :
        Guardado(s)
            => \A r \in ses[s].cambios : \A e \in equipos' :
                  (r.codigo_inventario # NOTEXT
                      /\ e.codigo_inventario = r.codigo_inventario)
                  => IF r.Obra \in Nombres(ses[s].df_sitios)
                     THEN /\ [id |-> e.sitio_id, nombre |-> r.Obra] \in ses[s].df_sitios
                          /\ [id |-> e.sitio_id, nombre |-> r.Obra] \in sitios'
                     ELSE e.sitio_id = NULL]_vars

C3_Witness ==
    /\ last.op = "save" /\ last.ok /\ last.reasigno
    /\ \E e \in equipos :
          /\ e.codigo_inventario = "PC-001"
          /\ [id |-> e.sitio_id, nombre |-> "DEFECTUOSA"] \in sitios
    /\ \E e \in equipos : e.sitio_id = NULL

\* C4: a successful save from the unfiltered view deletes every persisted row that
\* is not in the table the session loaded, a row inserted since the load included.
C4_StaleViewDeletes ==
    [][\A s \in Sessions :
        (Guardado(s) /\ ses[s].filtro = TODAS)
            => \A e \in equipos :
                  e.id \notin Ids(ses[s].df_equipos) => e.id \notin Ids(equipos')]_vars

C4_Witness ==
    /\ last.op = "save" /\ last.ok /\ last.todas
    /\ last.borroAjena /\ last.quitadas = 0

C6_InitDbIdempotent ==
    /\ \A n \in 1..MaxRuns : InitDbN(DB, n) = InitDb(DB)
    /\ "equipos" \in tablas => InitDb(DB) = DB

C6_Witness ==
    /\ last.op = "run" /\ last.ok
    /\ "OBRA1" \in Nombres(sitios)
    /\ equipos # {}

\* C7: once init_db has run, sitios holds each of the three default states exactly
\* once.
C7_SeedsPresent ==
    "sitios" \in tablas
        => \A n \in {"LIBRE", "DEFECTUOSA", "OFICINA CENTRAL"} :
              Cardinality({s \in sitios : s.nombre = n}) = 1

C7_Witness ==
    /\ last.op = "save" /\ last.ok /\ last.borradas > 0
    /\ "OBRA1" \in Nombres(sitios)
    /\ Cardinality(sitios) = 4

\* C8: Crear Obra with a name that sitios holds ends in "Ya existe." and leaves both
\* tables as they were; no two rows of sitios share a name or an id.
C8_DuplicateSiteRejected ==
    [][/\ (last'.op = "crear" /\ last'.nombre \in Nombres(sitios))
            => /\ last'.msg = "Ya existe."
               /\ ~last'.ok
               /\ sitios' = sitios
               /\ equipos' = equipos
       /\ \A a, b \in sitios' : (a.nombre = b.nombre \/ a.id = b.id) => a = b]_vars

C8_Witness ==
    /\ last.op = "crear" /\ ~last.ok /\ last.msg = "Ya existe."
    /\ last.nombre = "OBRA1"
    /\ equipos # {}

\* C9: a successful save from a filtered view deletes no row of equipos.
C9_NoDeleteWhenFiltered ==
    [][\A s \in Sessions :
        (Guardado(s) /\ ses[s].filtro # TODAS)
            => /\ Ids(equipos') = Ids(equipos)
               /\ CodigosDe(equipos') = CodigosDe(equipos)]_vars

C9_Witness ==
    /\ last.op = "save" /\ last.ok /\ ~last.todas
    /\ last.quitadas > 0 /\ last.ajenas /\ last.borradas = 0

\* C10: a save never adds a row to equipos: the persisted ids and codes after it are
\* among those before it, also from a stale table and with rows added on screen.
C10_SaveNeverInserts ==
    [][\A s \in Sessions :
        SaveDe(s)
            => /\ Ids(equipos') \subseteq Ids(equipos)
               /\ CodigosDe(equipos') \subseteq CodigosDe(equipos)]_vars

C10_Witness ==
    /\ last.op = "save" /\ last.ok /\ last.ses = "s2"
    /\ last.fantasma /\ last.nueva /\ last.quitadas = 0
    /\ CodigosDe(equipos) = {"PC-002"}

====
